---- MODULE Spec2Model ----
(***************************************************************************)
(* Model of src/variants.rs: the Variants store (SQLite connection with    *)
(* the tables `variants` and `metadata`), Variants::import (batched,       *)
(* transactional load of a VCF record stream) and Variants::query (export  *)
(* of the rows of one SELECT as VCF records).                              *)
(*                                                                         *)
(* Options (Option<T>) are sequences of length 0 or 1: None == <<>>,       *)
(* Some(x) == <<x>>.  Text that the code never takes apart is a string;    *)
(* text that is split or joined is a sequence of tokens.                   *)
(***************************************************************************)
EXTENDS Integers, Sequences, FiniteSets, TLC

\* ------------------------------------------------------------------------
\* Bounds of the model
\* ------------------------------------------------------------------------

\* Records read from input files, summed over all import runs.
MaxRecords == 3

\* Import runs started against the same store.
MaxRuns == 2

\* `const BATCH_SIZE: usize = 10_000`, scaled down so that full, partial and
\* empty batches all occur within MaxRecords.
BATCH_SIZE == 2

\* ------------------------------------------------------------------------
\* Values
\* ------------------------------------------------------------------------

None == <<>>

Some(x) == <<x>>

\* Raw numeric field text that does not parse as a number.
BadNum == -1

\* The header of the input file: file format and the declared INFO keys with
\* their (Number, Type).
Header == [fileformat |-> "VCFv4.3",
           infos |-> <<[id |-> "DP", number |-> "1", type |-> "Integer"],
                       [id |-> "AC", number |-> "A", type |-> "Integer"]>>]

\* The lazily parsed source records (vcf::Record keeps the raw field text).
\*   pos    raw POS: 0 is the telomere start, BadNum is unparsable text
\*   ids    the ';'-separated ID field, <<>> for "."
\*   qual   None for ".", Some(BadNum) for unparsable text
\*   filter the ';'-separated FILTER field, one element per filter name
\*   info   the raw INFO text: the ';'-separated fields, each a key and the
\*          ','-separated raw values; <<>> for "."; the key XX is not
\*          declared in Header
RecFull == [chrom |-> "chr1", pos |-> 1, ids |-> <<"rs1", "rs2">>,
            ref |-> "A", alt |-> "G,T", qual |-> Some(0),
            filter |-> <<"PASS">>,
            info |-> <<[key |-> "DP", vals |-> <<"1">>],
                       [key |-> "AC", vals |-> <<"1", "2">>],
                       [key |-> "XX", vals |-> <<"foo">>]>>]

RecBare == [chrom |-> "chr2", pos |-> 2, ids |-> <<>>, ref |-> "G",
            alt |-> "C", qual |-> None, filter |-> <<"q10", "s50">>,
            info |-> <<>>]

RecTelomere == [chrom |-> "chr1", pos |-> 0, ids |-> <<"rs4">>, ref |-> "N",
                alt |-> "T", qual |-> Some(5), filter |-> <<"PASS">>,
                info |-> <<>>]

RecBadInfo == [chrom |-> "chr2", pos |-> 1, ids |-> <<>>, ref |-> "C",
               alt |-> "T", qual |-> Some(5), filter |-> <<"PASS">>,
               info |-> <<[key |-> "DP", vals |-> <<"x">>]>>]

RecBadArray == [chrom |-> "chr2", pos |-> 1, ids |-> <<"rs5">>, ref |-> "C",
                alt |-> "A", qual |-> None, filter |-> <<"PASS">>,
                info |-> <<[key |-> "AC", vals |-> <<"1", "x">>]>>]

RecBadPos == [chrom |-> "chr1", pos |-> BadNum, ids |-> <<>>, ref |-> "A",
              alt |-> "T", qual |-> None, filter |-> <<"PASS">>,
              info |-> <<>>]

RecBadQual == [chrom |-> "chr1", pos |-> 1, ids |-> <<>>, ref |-> "A",
               alt |-> "T", qual |-> Some(BadNum), filter |-> <<"PASS">>,
               info |-> <<>>]

Records == {RecFull, RecBare, RecTelomere, RecBadInfo, RecBadArray,
            RecBadPos, RecBadQual}

\* Reference sequence names in the engine's collation order.
Chroms == <<"chr1", "chr2">>

\* ------------------------------------------------------------------------
\* State
\* ------------------------------------------------------------------------

VARIABLES
    schema,            \* store: number of objects of each name
    variants,          \* store: committed rows of `variants`, in rowid order
    metadata,          \* store: committed rows of `metadata`
    zstdEnabled,       \* store: transparent compression enabled on info
    txOpen,            \* a transaction `tx` is open on the connection
    txRows,            \* rows inserted inside the open transaction
    pc,                \* position of the running operation, "idle" if none
    header,            \* import: Option of the header read from the file
    read,              \* import: records taken from `records` in this run
    records_processed, \* import: the counter of the same name
    done,              \* import: the flag of the same name
    inBatch,           \* import: iterations of `for _ in 0..BATCH_SIZE` done
    sql,               \* query: the text of the SELECT
    rows,              \* query: result rows not yet taken from `rows`
    qheader,           \* query: Option of the header load_header returned
    out,               \* query: content of the output file vcf_out
    q_group_by,        \* query: the argument group_by
    q_having,          \* query: the argument having
    resultRows,        \* history: all rows of the result of the query
    result,            \* outcome of the last operation
    failedAt,          \* step at which the last operation failed
    runs,              \* import runs started
    consumed,          \* records read over all runs
    base,              \* history: Len(variants) when the run started
    batch,             \* history: transactions opened in this run
    trace,             \* history: steps completed by the current operation
    imported,          \* history: the source record of each committed row
    importOutcome      \* history: outcome of the latest import run

importVars == <<header, read, records_processed, done, inBatch>>

queryArgs == <<q_group_by, q_having>>

queryVars == <<sql, rows, qheader, out, q_group_by, q_having, resultRows>>

storeVars == <<schema, variants, metadata, zstdEnabled>>

vars == <<schema, variants, metadata, zstdEnabled, txOpen, txRows, pc,
          header, read, records_processed, done, inBatch, sql, rows, qheader,
          out, q_group_by, q_having, resultRows, result, failedAt,
          runs, consumed, base, batch, trace, imported, importOutcome>>

\* ------------------------------------------------------------------------
\* Pure functions
\* ------------------------------------------------------------------------

\* Mutant of CreateIfNotExists: plain CREATE, an error when the name exists.
CreateNoGuard(objs, name) ==
    IF objs[name] > 0
    THEN [ok |-> FALSE, objs |-> objs]
    ELSE [ok |-> TRUE, objs |-> [objs EXCEPT ![name] = 1]]

\* CREATE TABLE / CREATE INDEX ... IF NOT EXISTS: a no-op that succeeds when
\* an object of that name exists.
CreateIfNotExists(objs, name) ==
    IF objs[name] > 0
    THEN [ok |-> TRUE, objs |-> objs]
    ELSE [ok |-> TRUE, objs |-> [objs EXCEPT ![name] = 1]]

\* The DDL between BEGIN and COMMIT of the first execute_batch.
ApplySchema(objs) ==
    LET t1 == CreateIfNotExists(objs, "variants")
        t2 == CreateIfNotExists(t1.objs, "metadata")
        t3 == CreateIfNotExists(t2.objs, "idx_variants_chrom_pos")
    IN  IF t1.ok /\ t2.ok /\ t3.ok
        THEN [ok |-> TRUE, objs |-> t3.objs]
        ELSE [ok |-> FALSE, objs |-> objs]

\* record.variant_start().transpose()?.map(usize::from)
variant_start(record) ==
    IF record.pos = BadNum THEN [ok |-> FALSE, val |-> None]
    ELSE IF record.pos = 0 THEN [ok |-> TRUE, val |-> None]
    ELSE [ok |-> TRUE, val |-> Some(record.pos)]

\* Mutant of quality_score: a missing score is read as 0.
quality_score_or_zero(record) ==
    IF record.qual = Some(BadNum) THEN [ok |-> FALSE, val |-> None]
    ELSE IF record.qual = None THEN [ok |-> TRUE, val |-> Some(0)]
    ELSE [ok |-> TRUE, val |-> record.qual]

\* record.quality_score().transpose()?
quality_score(record) ==
    IF record.qual = Some(BadNum) THEN [ok |-> FALSE, val |-> None]
    ELSE [ok |-> TRUE, val |-> record.qual]

\* ids.iter().next()
first_id(record) ==
    IF record.ids = <<>> THEN None ELSE Some(Head(record.ids))

\* The parameters execute_record binds to the INSERT statement; ok is FALSE
\* when the position or the quality score of the record does not parse.
execute_record(record) ==
    LET pos == variant_start(record)
        qual == quality_score(record)
    IN  IF ~pos.ok \/ ~qual.ok
        THEN [ok |-> FALSE, row |-> <<>>]
        ELSE [ok |-> TRUE,
              row |-> [chrom |-> record.chrom,
                       pos |-> pos.val,
                       id |-> first_id(record),
                       ref |-> record.ref,
                       alt |-> record.alt,
                       qual |-> qual.val,
                       filter |-> record.filter,
                       info |-> record.info]]

\* writer.write_header: the header as text, one element per line.
WriteHeader(h) ==
    <<[key |-> "fileformat", value |-> h.fileformat]>>
    \o [i \in 1..Len(h.infos) |-> [key |-> "INFO", value |-> h.infos[i]]]
    \o <<[key |-> "#CHROM", value |-> "POS ID REF ALT QUAL FILTER INFO"]>>

\* Mutant of DropTx: the dropped transaction is committed instead.
DropTxCommits(committed, uncommitted) == committed \o uncommitted

\* Dropping a rusqlite Transaction that was not committed rolls it back: the
\* table keeps its committed rows.
DropTx(committed, uncommitted) == committed

\* Mutant of CommitTx: the rows of the transaction replace the table's.
CommitTxReplaces(committed, uncommitted) == uncommitted

\* tx.commit(): the rows of the transaction become rows of the table.
CommitTx(committed, uncommitted) == committed \o uncommitted

\* ------------------------------------------------------------------------
\* Initial state: a new, empty database file and no operation running
\* ------------------------------------------------------------------------

Init ==
    /\ schema = [variants |-> 0, metadata |-> 0, idx_variants_chrom_pos |-> 0]
    /\ variants = <<>>
    /\ metadata = <<>>
    /\ zstdEnabled = FALSE
    /\ txOpen = FALSE
    /\ txRows = <<>>
    /\ pc = "idle"
    /\ header = None
    /\ read = <<>>
    /\ records_processed = 0
    /\ done = FALSE
    /\ inBatch = 0
    /\ sql = <<>>
    /\ rows = <<>>
    /\ qheader = None
    /\ out = <<>>
    /\ q_group_by = None
    /\ q_having = None
    /\ resultRows = <<>>
    /\ result = "none"
    /\ failedAt = "none"
    /\ runs = 0
    /\ consumed = 0
    /\ base = 0
    /\ batch = 0
    /\ trace = <<>>
    /\ imported = <<>>
    /\ importOutcome = "none"

\* ------------------------------------------------------------------------
\* Variants::import
\* ------------------------------------------------------------------------

\* Mutant of FailImport: the error is noted and the loop goes on.
FailImportContinues(step) ==
    /\ pc' = pc
    /\ failedAt' = step
    /\ UNCHANGED <<storeVars, txOpen, txRows, result, importOutcome, runs,
                   base, batch, trace, imported>>

\* `?` on an error inside import: the function returns Err; an open
\* transaction is dropped.
FailImport(step) ==
    /\ pc' = "idle"
    /\ result' = "err"
    /\ importOutcome' = "failed"
    /\ failedAt' = step
    /\ txOpen' = FALSE
    /\ txRows' = <<>>
    /\ variants' = DropTx(variants, txRows)
    /\ UNCHANGED <<schema, metadata, zstdEnabled, runs, base, batch, trace,
                   imported, queryVars>>

StartImport ==
    /\ pc = "idle"
    /\ runs < MaxRuns
    /\ pc' = "schema"
    /\ runs' = runs + 1
    /\ header' = None
    /\ read' = <<>>
    /\ records_processed' = 0
    /\ done' = FALSE
    /\ inBatch' = 0
    /\ result' = "running"
    /\ importOutcome' = "running"
    /\ failedAt' = "none"
    /\ base' = Len(variants)
    /\ batch' = 0
    /\ trace' = <<>>
    /\ sql' = <<>>
    /\ rows' = <<>>
    /\ qheader' = None
    /\ out' = <<>>
    /\ q_group_by' = None
    /\ q_having' = None
    /\ resultRows' = <<>>
    /\ UNCHANGED <<storeVars, txOpen, txRows, consumed, imported>>

\* PRAGMAs; BEGIN; CREATE ... IF NOT EXISTS (x3); COMMIT
ImportSchema ==
    /\ pc = "schema"
    /\ LET r == ApplySchema(schema)
       IN  IF r.ok
           THEN /\ schema' = r.objs
                /\ pc' = "enable"
                /\ trace' = Append(trace, "schema")
                /\ UNCHANGED <<variants, metadata, zstdEnabled, txOpen,
                               txRows, result, failedAt, runs, base, batch,
                               imported, importOutcome>>
           ELSE FailImport("schema")
    /\ UNCHANGED <<importVars, consumed, queryVars>>

\* SELECT zstd_enable_transparent(...)
ImportEnable ==
    /\ pc = "enable"
    /\ \/ /\ zstdEnabled' = TRUE
          /\ pc' = "maint0"
          /\ trace' = Append(trace, "enable")
          /\ UNCHANGED <<schema, variants, metadata, txOpen, txRows, result,
                         failedAt, runs, base, batch, imported, importOutcome>>
       \/ FailImport("enable")
    /\ UNCHANGED <<importVars, consumed, queryVars>>

\* SELECT zstd_incremental_maintenance(NULL, 1), last statement of the batch
ImportMaint0 ==
    /\ pc = "maint0"
    /\ \/ /\ pc' = "open"
          /\ trace' = Append(trace, "maint")
          /\ UNCHANGED <<storeVars, txOpen, txRows, result, failedAt, runs,
                         base, batch, imported, importOutcome>>
       \/ FailImport("maint0")
    /\ UNCHANGED <<importVars, consumed, queryVars>>

\* vcf::io::reader::Builder ... build_from_path(vcf_in)
ImportOpenReader ==
    /\ pc = "open"
    /\ \/ /\ pc' = "read_header"
          /\ UNCHANGED <<storeVars, txOpen, txRows, result, failedAt, runs,
                         base, batch, trace, imported, importOutcome>>
       \/ FailImport("open")
    /\ UNCHANGED <<importVars, consumed, queryVars>>

\* reader.read_header()?
ImportReadHeader ==
    /\ pc = "read_header"
    /\ \/ /\ pc' = "store_header"
          /\ header' = Some(Header)
          /\ UNCHANGED <<storeVars, txOpen, txRows, result, failedAt, runs,
                         base, batch, trace, imported, importOutcome>>
       \/ /\ FailImport("read_header")
          /\ UNCHANGED header
    /\ UNCHANGED <<read, records_processed, done, inBatch, consumed,
                   queryVars>>

\* Mutant of store_header: the header is not inserted before the loop.
store_header_skipped ==
    /\ pc = "store_header"
    /\ pc' = "begin"
    /\ UNCHANGED <<storeVars, txOpen, txRows, result, failedAt, runs, base,
                   batch, trace, imported, importOutcome, importVars,
                   consumed, queryVars>>

\* store_header(&header, conn)?
store_header ==
    /\ pc = "store_header"
    /\ \/ /\ metadata' = Append(metadata, [header |-> WriteHeader(header[1])])
          /\ pc' = "begin"
          /\ trace' = Append(trace, "store_header")
          /\ UNCHANGED <<schema, variants, zstdEnabled, txOpen, txRows,
                         result, failedAt, runs, base, batch, imported, importOutcome>>
       \/ FailImport("store_header")
    /\ UNCHANGED <<importVars, consumed, queryVars>>

\* let tx = conn.transaction()?; let mut stmt = tx.prepare(SQL)?;
ImportBegin ==
    /\ pc = "begin"
    /\ \/ /\ txOpen' = TRUE
          /\ txRows' = <<>>
          /\ batch' = batch + 1
          /\ inBatch' = 0
          /\ pc' = "next"
          /\ trace' = Append(trace, "begin")
          /\ UNCHANGED <<storeVars, result, failedAt, runs, base, imported, importOutcome>>
       \/ /\ FailImport("begin")
          /\ UNCHANGED inBatch
    /\ UNCHANGED <<header, read, records_processed, done, consumed,
                   queryVars>>

\* Mutant of BatchFull: the for loop runs one iteration too many.
BatchFullLate(n) == n = BATCH_SIZE + 1

\* `for _ in 0..BATCH_SIZE` is exhausted after BATCH_SIZE iterations.
BatchFull(n) == n = BATCH_SIZE

\* One iteration of `for _ in 0..BATCH_SIZE`.
ImportRecord ==
    /\ pc = "next"
    /\ \/ \* records.next() is Some(Ok(record))
          /\ consumed < MaxRecords
          /\ \E record \in Records, inserted \in BOOLEAN :
                /\ read' = Append(read, record)
                /\ consumed' = consumed + 1
                /\ records_processed' = records_processed + 1
                /\ LET r == execute_record(record)
                   IN  IF r.ok /\ inserted
                       THEN /\ txRows' = Append(txRows, r.row)
                            /\ inBatch' = inBatch + 1
                            /\ pc' = IF BatchFull(inBatch + 1)
                                     THEN "maint" ELSE "next"
                            /\ trace' = Append(trace, "insert")
                            /\ UNCHANGED <<storeVars, txOpen, result,
                                           failedAt, runs, base, batch,
                                           imported, importOutcome>>
                       ELSE /\ FailImport("insert")
                            /\ UNCHANGED inBatch
          /\ UNCHANGED <<header, done>>
       \/ \* records.next() is Some(Err(_))
          /\ FailImport("read")
          /\ UNCHANGED <<importVars, consumed, queryVars>>
       \/ \* records.next() is None
          /\ done' = TRUE
          /\ pc' = "maint"
          /\ UNCHANGED <<storeVars, txOpen, txRows, result, failedAt, runs,
                         base, batch, trace, imported, importOutcome, header, read,
                         records_processed, inBatch, consumed>>
    /\ UNCHANGED queryVars

\* Mutant of ImportMaint: the batch is committed without maintenance.
ImportMaintSkipped ==
    /\ pc = "maint"
    /\ pc' = "commit"
    /\ UNCHANGED <<storeVars, txOpen, txRows, result, failedAt, runs, base,
                   batch, trace, imported, importOutcome, importVars,
                   consumed, queryVars>>

\* tx.query_row("SELECT zstd_incremental_maintenance(NULL, 1)", ..)
ImportMaint ==
    /\ pc = "maint"
    /\ \/ /\ pc' = "commit"
          /\ trace' = Append(trace, "maint")
          /\ UNCHANGED <<storeVars, txOpen, txRows, result, failedAt, runs,
                         base, batch, imported, importOutcome>>
       \/ FailImport("maint")
    /\ UNCHANGED <<importVars, consumed, queryVars>>

\* Mutant of ImportCommit: the next batch starts without the VACUUM.
ImportCommitNoVacuum ==
    /\ pc = "commit"
    /\ variants' = CommitTx(variants, txRows)
    /\ imported' = imported \o SubSeq(read, Len(read) - Len(txRows) + 1,
                                      Len(read))
    /\ txRows' = <<>>
    /\ txOpen' = FALSE
    /\ pc' = IF done THEN "analyze" ELSE "begin"
    /\ trace' = Append(trace, "commit")
    /\ UNCHANGED <<schema, metadata, zstdEnabled, result, failedAt, runs,
                   base, batch, importOutcome, importVars, consumed,
                   queryVars>>

\* tx.commit()?
ImportCommit ==
    /\ pc = "commit"
    /\ \/ /\ variants' = CommitTx(variants, txRows)
          /\ imported' = imported \o SubSeq(read, Len(read) - Len(txRows) + 1,
                                            Len(read))
          /\ txRows' = <<>>
          /\ txOpen' = FALSE
          /\ pc' = "vacuum"
          /\ trace' = Append(trace, "commit")
          /\ UNCHANGED <<schema, metadata, zstdEnabled, result, failedAt,
                         runs, base, batch, importOutcome>>
       \/ FailImport("commit")
    /\ UNCHANGED <<importVars, consumed, queryVars>>

\* conn.execute("VACUUM", [])
ImportVacuum ==
    /\ pc = "vacuum"
    /\ \/ /\ pc' = IF done THEN "analyze" ELSE "begin"
          /\ trace' = Append(trace, "vacuum")
          /\ UNCHANGED <<storeVars, txOpen, txRows, result, failedAt, runs,
                         base, batch, imported, importOutcome>>
       \/ FailImport("vacuum")
    /\ UNCHANGED <<importVars, consumed, queryVars>>

\* Mutant of ImportAnalyze: import returns Ok without running ANALYZE.
ImportAnalyzeSkipped ==
    /\ pc = "analyze"
    /\ pc' = "idle"
    /\ result' = "ok"
    /\ importOutcome' = "ok"
    /\ UNCHANGED <<storeVars, txOpen, txRows, failedAt, runs, base, batch,
                   trace, imported, importVars, consumed, queryVars>>

\* conn.execute("ANALYZE", [])?; Ok(())
ImportAnalyze ==
    /\ pc = "analyze"
    /\ \/ /\ pc' = "idle"
          /\ result' = "ok"
          /\ importOutcome' = "ok"
          /\ trace' = Append(trace, "analyze")
          /\ UNCHANGED <<storeVars, txOpen, txRows, failedAt, runs, base,
                         batch, imported>>
       \/ FailImport("analyze")
    /\ UNCHANGED <<importVars, consumed, queryVars>>

ImportSteps == {"schema", "enable", "maint0", "open", "read_header",
                "store_header", "begin", "next", "maint", "commit", "vacuum",
                "analyze"}

\* The process is killed during an import: the write-ahead log holds no
\* commit record for the open transaction, so its rows are gone.
Crash ==
    /\ pc \in ImportSteps
    /\ pc' = "idle"
    /\ result' = "crash"
    /\ importOutcome' = "failed"
    /\ failedAt' = pc
    /\ txOpen' = FALSE
    /\ txRows' = <<>>
    /\ variants' = DropTx(variants, txRows)
    /\ UNCHANGED <<schema, metadata, zstdEnabled, runs, base, batch, trace,
                   imported, importVars, consumed, queryVars>>

\* ------------------------------------------------------------------------
\* Variants::query
\* ------------------------------------------------------------------------

Select == "SELECT chrom, pos, id, ref, alt, qual, filter, info FROM variants"

\* The grouping and filter fragments the callers pass.
GroupBys == {"chrom"}

Havings == {"COUNT(*) > 1"}

\* Mutant of BuildSql: the filter is appended only to a grouped query.
BuildSqlHavingNeedsGroup(group_by, having) ==
    IF group_by # None
    THEN IF having # None
         THEN <<Select, " GROUP BY ", group_by[1], " HAVING ", having[1]>>
         ELSE <<Select, " GROUP BY ", group_by[1]>>
    ELSE <<Select>>

\* The text of the query, one element per formatted piece.
BuildSql(group_by, having) ==
    LET sql1 == <<Select>>
        sql2 == IF group_by # None
                THEN sql1 \o <<" GROUP BY ", group_by[1]>>
                ELSE sql1
    IN  IF having # None
        THEN sql2 \o <<" HAVING ", having[1]>>
        ELSE sql2

\* The groups of the query over the table, each the set of the rowids in it,
\* in output order.  GROUP BY chrom makes one group per chrom, in collation
\* order; an aggregate in HAVING without a GROUP BY makes the whole table
\* one group.
Groups(text, table) ==
    IF Len(text) >= 3 /\ text[2] = " GROUP BY "
    THEN [c \in 1..Len(Chroms) |->
             {i \in 1..Len(table) : table[i].chrom = Chroms[c]}]
    ELSE <<1..Len(table)>>

\* HAVING COUNT(*) > 1
Kept(text, group) ==
    IF text[Len(text) - 1] = " HAVING "
    THEN Cardinality(group) > 1
    ELSE group # {}

\* The rows at the rowids reps[g] of the kept groups, in group order.
RECURSIVE Representatives(_, _, _, _)
Representatives(text, table, groups, reps) ==
    IF groups = <<>> THEN <<>>
    ELSE LET rest == Representatives(text, table, Tail(groups), Tail(reps))
         IN  IF Kept(text, Head(groups))
             THEN <<table[Head(reps)]>> \o rest
             ELSE rest

\* The result sets the engine can produce for the query.  The bare SELECT
\* scans the table in rowid order.  With a GROUP BY or HAVING fragment the
\* result has one row per kept group, and its columns (none is an aggregate)
\* are those of one row of the group; which one is the engine's choice.
ResultSets(text, table) ==
    IF text = <<Select>>
    THEN {table}
    ELSE LET groups == Groups(text, table)
             choices == {reps \in [1..Len(groups) -> 0..Len(table)] :
                            \A g \in 1..Len(groups) :
                                IF groups[g] = {} THEN reps[g] = 0
                                ELSE reps[g] \in groups[g]}
         IN  {Representatives(text, table, groups, reps) : reps \in choices}

\* reader.read_header() on the stored text.
ReadHeader(text) ==
    IF /\ Len(text) >= 2
       /\ text[1].key = "fileformat"
       /\ text[Len(text)].key = "#CHROM"
       /\ \A i \in 2..(Len(text) - 1) : text[i].key = "INFO"
    THEN [ok |-> TRUE,
          header |-> [fileformat |-> text[1].value,
                      infos |-> [i \in 1..(Len(text) - 2) |->
                                    text[i + 1].value]]]
    ELSE [ok |-> FALSE, header |-> <<>>]

\* Position::try_from(n): positions are 1-based.
PositionTryFrom(n) ==
    IF n >= 1 THEN [ok |-> TRUE, val |-> n] ELSE [ok |-> FALSE, val |-> 0]

\* Mutant of unwrap_or_default: an absent position is read as 1.
unwrap_or_one(opt) == IF opt = None THEN 1 ELSE opt[1]

\* Option::unwrap_or_default on Option<usize>
unwrap_or_default(opt) == IF opt = None THEN 0 ELSE opt[1]

\* str::parse::<i32> on the raw values that occur in Records.
ParseInt(raw) ==
    CASE raw = "0" -> [ok |-> TRUE, val |-> 0]
      [] raw = "1" -> [ok |-> TRUE, val |-> 1]
      [] raw = "2" -> [ok |-> TRUE, val |-> 2]
      [] OTHER -> [ok |-> FALSE, val |-> 0]

\* The (Number, Type) the header declares for an INFO key; a key that is not
\* declared is read with the reader's default definition.
InfoDefinition(h, key) ==
    IF \E i \in 1..Len(h.infos) : h.infos[i].id = key
    THEN LET i == CHOOSE i \in 1..Len(h.infos) : h.infos[i].id = key
         IN  [number |-> h.infos[i].number, type |-> h.infos[i].type]
    ELSE [number |-> "1", type |-> "String"]

\* One field of info.iter(header), then the try_into() of line 273.
\*   "err":   info.iter yields Err (a scalar value does not parse)
\*   "panic": the field is an array, which info.iter yields unparsed; the
\*            conversion to the owned value parses the elements and fails,
\*            and unwrap() panics
ParseField(field, h) ==
    LET def == InfoDefinition(h, field.key)
        ints == [i \in 1..Len(field.vals) |-> ParseInt(field.vals[i])]
    IN  IF def.type = "Integer" /\ def.number = "1"
        THEN IF Len(field.vals) = 1 /\ ints[1].ok
             THEN [status |-> "ok", key |-> field.key,
                   value |-> Some([type |-> "Integer", v |-> ints[1].val])]
             ELSE [status |-> "err", key |-> field.key, value |-> None]
        ELSE IF def.type = "Integer"
        THEN IF \A i \in 1..Len(ints) : ints[i].ok
             THEN [status |-> "ok", key |-> field.key,
                   value |-> Some([type |-> "Array<Integer>",
                                   v |-> [i \in 1..Len(ints) |-> ints[i].val]])]
             ELSE [status |-> "panic", key |-> field.key, value |-> None]
        ELSE [status |-> "ok", key |-> field.key,
              value |-> Some([type |-> "String", v |-> field.vals])]

\* parse_info: all fields are collected into an io::Result first (`info?`),
\* then each value is converted with try_into().unwrap().
parse_info(info, h) ==
    LET fields == [i \in 1..Len(info) |-> ParseField(info[i], h)]
    IN  IF \E i \in 1..Len(fields) : fields[i].status = "err"
        THEN [status |-> "err", info |-> <<>>]
        ELSE IF \E i \in 1..Len(fields) : fields[i].status = "panic"
        THEN [status |-> "panic", info |-> <<>>]
        ELSE [status |-> "ok",
              info |-> [i \in 1..Len(fields) |->
                           [key |-> fields[i].key, value |-> fields[i].value]]]

\* id.map(String::from).into_iter().collect()
IdsOf(id) == id

\* Lines 185-218: the RecordBuf built from one result row.
\*   "position": Position::try_from fails;  "info" / "panic": parse_info
BuildRecord(row, h) ==
    LET pos == PositionTryFrom(unwrap_or_default(row.pos))
        info == parse_info(row.info, h)
    IN  IF ~pos.ok THEN [status |-> "position", record |-> <<>>]
        ELSE IF info.status # "ok"
        THEN [status |-> IF info.status = "err" THEN "info" ELSE "panic",
              record |-> <<>>]
        ELSE [status |-> "ok",
              record |-> [reference_sequence_name |-> row.chrom,
                          variant_start |-> pos.val,
                          ids |-> IdsOf(row.id),
                          reference_bases |-> row.ref,
                          alternate_bases |-> <<row.alt>>,
                          quality_score |-> row.qual,
                          filters |-> <<row.filter>>,
                          info |-> info.info]]

\* `?` on an error inside query (or a panic): the function does not return
\* Ok; what was written to the output file stays there.
FailQuery(outcome, step) ==
    /\ pc' = "idle"
    /\ result' = outcome
    /\ failedAt' = step
    /\ UNCHANGED <<storeVars, txOpen, txRows, importVars, runs, consumed,
                   base, batch, imported, importOutcome, trace>>

StartQuery ==
    /\ pc = "idle"
    /\ \E group_by \in {None} \cup {Some(g) : g \in GroupBys},
          having \in {None} \cup {Some(h) : h \in Havings} :
            /\ q_group_by' = group_by
            /\ q_having' = having
            /\ sql' = BuildSql(group_by, having)
    /\ resultRows' = <<>>
    /\ pc' = "q_prepare"
    /\ rows' = <<>>
    /\ qheader' = None
    /\ out' = <<>>
    /\ result' = "running"
    /\ failedAt' = "none"
    /\ trace' = <<>>
    /\ header' = None
    /\ read' = <<>>
    /\ records_processed' = 0
    /\ done' = FALSE
    /\ inBatch' = 0
    /\ base' = 0
    /\ batch' = 0
    /\ UNCHANGED <<storeVars, txOpen, txRows, runs, consumed, imported, importOutcome>>

\* conn.prepare(&sql)?; stmt.query([])?
QueryPrepare ==
    /\ pc = "q_prepare"
    /\ \/ /\ schema.variants > 0
          /\ \E rs \in ResultSets(sql, variants) :
                /\ rows' = rs
                /\ resultRows' = rs
          /\ pc' = "q_open_writer"
          /\ UNCHANGED <<storeVars, txOpen, txRows, importVars, runs,
                         consumed, base, batch, imported, importOutcome, trace, result,
                         failedAt>>
       \/ /\ FailQuery("err", "prepare")
          /\ UNCHANGED <<rows, resultRows>>
    /\ UNCHANGED <<sql, qheader, out, queryArgs>>

\* vcf::io::writer::Builder ... build_from_path(vcf_out)?
QueryOpenWriter ==
    /\ pc = "q_open_writer"
    /\ \/ /\ pc' = "q_load_header"
          /\ UNCHANGED <<storeVars, txOpen, txRows, importVars, runs,
                         consumed, base, batch, imported, importOutcome, trace, result,
                         failedAt>>
       \/ FailQuery("err", "open_writer")
    /\ UNCHANGED queryVars

\* Mutant of FirstHeader: an empty header when the table has no row.
FirstHeaderOrEmpty(table) ==
    IF table = <<>>
    THEN [ok |-> TRUE, header |-> [fileformat |-> "VCFv4.3", infos |-> <<>>]]
    ELSE ReadHeader(table[1].header)

\* The text load_header parses: query_row returns the first row, or an
\* error when there is none.
FirstHeader(table) ==
    IF table = <<>>
    THEN [ok |-> FALSE, header |-> <<>>]
    ELSE ReadHeader(table[1].header)

\* load_header(conn)?
load_header ==
    /\ pc = "q_load_header"
    /\ LET r == FirstHeader(metadata)
       IN  IF r.ok
           THEN /\ qheader' = Some(r.header)
                /\ pc' = "q_write_header"
                /\ UNCHANGED <<storeVars, txOpen, txRows, importVars, runs,
                               consumed, base, batch, imported, importOutcome, trace,
                               result, failedAt>>
           ELSE /\ FailQuery("err", "load_header")
                /\ UNCHANGED qheader
    /\ UNCHANGED <<sql, rows, out, queryArgs, resultRows>>

\* Mutant of QueryWriteHeader: the row loop starts without the header.
QueryWriteHeaderSkipped ==
    /\ pc = "q_write_header"
    /\ pc' = "q_rows"
    /\ UNCHANGED <<storeVars, txOpen, txRows, importVars, runs, consumed,
                   base, batch, imported, importOutcome, result, failedAt,
                   trace, queryVars>>

\* writer.write_header(&header)?
QueryWriteHeader ==
    /\ pc = "q_write_header"
    /\ \/ /\ out' = Append(out, [kind |-> "header", header |-> qheader[1]])
          /\ pc' = "q_rows"
          /\ trace' = Append(trace, "write_header")
          /\ UNCHANGED <<storeVars, txOpen, txRows, importVars, runs,
                         consumed, base, batch, imported, importOutcome, result, failedAt>>
       \/ /\ FailQuery("err", "write_header")
          /\ UNCHANGED out
    /\ UNCHANGED <<sql, rows, qheader, queryArgs, resultRows>>

\* One iteration of `while let Some(row) = rows.next()?`.
QueryRow ==
    /\ pc = "q_rows"
    /\ \/ \* rows.next() is Ok(Some(row))
          /\ rows # <<>>
          /\ LET r == BuildRecord(Head(rows), qheader[1])
             IN  IF r.status = "ok"
                 THEN \/ /\ out' = Append(out, [kind |-> "record",
                                                record |-> r.record])
                         /\ rows' = Tail(rows)
                         /\ trace' = Append(trace, "write_record")
                         /\ UNCHANGED <<storeVars, txOpen, txRows,
                                        importVars, runs, consumed, base,
                                        batch, imported, importOutcome, result, failedAt,
                                        pc>>
                      \/ \* writer.write_variant_record fails
                         /\ FailQuery("err", "write_record")
                         /\ UNCHANGED <<out, rows>>
                 ELSE /\ FailQuery(IF r.status = "panic"
                                   THEN "panic" ELSE "err", r.status)
                      /\ UNCHANGED <<out, rows>>
       \/ \* rows.next() is Err(_)
          /\ rows # <<>>
          /\ FailQuery("err", "row")
          /\ UNCHANGED <<out, rows>>
       \/ \* rows.next() is Ok(None): Ok(())
          /\ rows = <<>>
          /\ pc' = "idle"
          /\ result' = "ok"
          /\ UNCHANGED <<storeVars, txOpen, txRows, importVars, runs,
                         consumed, base, batch, imported, importOutcome, trace, failedAt,
                         out, rows>>
    /\ UNCHANGED <<sql, qheader, queryArgs, resultRows>>

Next ==
    \/ StartImport
    \/ ImportSchema
    \/ ImportEnable
    \/ ImportMaint0
    \/ ImportOpenReader
    \/ ImportReadHeader
    \/ store_header
    \/ ImportBegin
    \/ ImportRecord
    \/ ImportMaint
    \/ ImportCommit
    \/ ImportVacuum
    \/ ImportAnalyze
    \/ Crash
    \/ StartQuery
    \/ QueryPrepare
    \/ QueryOpenWriter
    \/ load_header
    \/ QueryWriteHeader
    \/ QueryRow

Spec == Init /\ [][Next]_vars

\* A step of the running import.  import is synchronous, straight-line
\* code: while it runs, its next statement is executed.
ImportStep ==
    \/ ImportSchema
    \/ ImportEnable
    \/ ImportMaint0
    \/ ImportOpenReader
    \/ ImportReadHeader
    \/ store_header
    \/ ImportBegin
    \/ ImportRecord
    \/ ImportMaint
    \/ ImportCommit
    \/ ImportVacuum
    \/ ImportAnalyze

FairSpec == Spec /\ WF_vars(ImportStep)

\* ------------------------------------------------------------------------
\* Properties
\* ------------------------------------------------------------------------

\* An import is running or was the last operation.
ImportContext == runs > 0 /\ sql = <<>>

\* A query is running or was the last operation.
QueryContext == sql # <<>>

\* Number of occurrences of step in the trace tr.
Count(tr, step) == Cardinality({i \in 1..Len(tr) : tr[i] = step})

\* The rows the current run has added to the table.
RunRows == SubSeq(variants, base + 1, Len(variants))

\* The rows execute_record inserts for the first n records of the stream.
RowsOf(stream, n) == [i \in 1..n |-> execute_record(stream[i]).row]

\* C1: batch atomicity.  At every point of an import run, and after it was
\* interrupted by an error or a crash, the committed rows of the run are the
\* rows of the first k * BATCH_SIZE records of the stream for some k (or of
\* all records once the last batch is committed), in order and once each;
\* after the interruption no row of the open transaction is left.
C1_BatchAtomicity ==
    ImportContext =>
        LET n == Len(variants) - base
        IN  /\ n >= 0
            /\ n <= Len(read)
            /\ \/ \E k \in 0..MaxRecords : n = k * BATCH_SIZE
               \/ done /\ n = Len(read)
            /\ RunRows = RowsOf(read, n)
            /\ Len(imported) = Len(variants)
            /\ result \in {"err", "crash"} => txRows = <<>> /\ ~txOpen

\* C1 witness: a run that committed one full batch was interrupted inside
\* its second batch, after a record of that batch had been read.
C1_Witness ==
    /\ ImportContext
    /\ result \in {"err", "crash"}
    /\ failedAt \in {"next", "insert", "read", "maint", "commit"}
    /\ Len(variants) - base = BATCH_SIZE
    /\ Len(read) > BATCH_SIZE

\* C5: import abort on failure.  When reading a record, inserting it, or the
\* maintenance of batch k fails, the import has returned an error, the
\* transaction of batch k is not committed, no insert follows the failing
\* record, no further transaction is opened, and the rows of batches
\* 1..k-1 are still there.
C5_ImportAbort ==
    (ImportContext /\ result # "crash"
                   /\ failedAt \in {"read", "insert", "maint"}) =>
        /\ pc = "idle"
        /\ result = "err"
        /\ ~txOpen
        /\ txRows = <<>>
        /\ Count(trace, "begin") = batch
        /\ Count(trace, "commit") = batch - 1
        /\ Len(variants) - base = (batch - 1) * BATCH_SIZE
        /\ RunRows = RowsOf(read, (batch - 1) * BATCH_SIZE)
        /\ SubSeq(variants, 1, base) = RowsOf(imported, base)
        /\ failedAt = "insert" => Count(trace, "insert") = Len(read) - 1
        /\ failedAt \in {"read", "maint"} =>
               Count(trace, "insert") = Len(read)

\* C5 witness: an insert of the second batch failed after the first batch
\* was committed.
C5_Witness ==
    /\ ImportContext
    /\ result = "err"
    /\ failedAt = "insert"
    /\ batch = 2
    /\ Len(variants) - base = BATCH_SIZE

\* C9: header before rows.  During an import into an empty store, whenever
\* the variants table holds a row, committed or in the open transaction, or
\* a batch transaction is open, the metadata row is stored already.
C9_HeaderBeforeRows ==
    (ImportContext /\ base = 0) =>
        ((txOpen \/ Len(variants) + Len(txRows) > 0) => metadata # <<>>)

\* C9 witness: the first batch transaction of an import into an empty store
\* holds a row.
C9_Witness ==
    /\ ImportContext
    /\ base = 0
    /\ txOpen
    /\ batch = 1
    /\ txRows # <<>>

\* C4: single metadata row.  Once a header is stored, the metadata table
\* holds exactly one row, whatever imports ran against the store.
C4_SingleMetadataRow == metadata # <<>> => Len(metadata) = 1

\* C6: idempotent schema.  The schema step, run against a store that has
\* the two tables and the index, succeeds, leaves one object of each name
\* and leaves the rows of both tables as they are.
C6_IdempotentSchema ==
    [][(/\ pc = "schema"
        /\ \A name \in DOMAIN schema : schema[name] >= 1
        /\ result' # "crash")
       => (/\ pc' = "enable"
           /\ result' = "running"
           /\ \A name \in DOMAIN schema : schema'[name] = 1
           /\ variants' = variants
           /\ metadata' = metadata)]_vars

\* C6 witness: the schema step of an import has run against a store whose
\* variants table held rows.
C6_Witness ==
    /\ pc = "enable"
    /\ trace = <<"schema">>
    /\ base > 0
    /\ metadata # <<>>

\* C8: a query against a store whose metadata table has no row does not
\* get past load_header: it never succeeds and the output holds neither a
\* header nor a record.
C8_NoHeaderNoOutput ==
    (QueryContext /\ metadata = <<>>) =>
        /\ out = <<>>
        /\ result # "ok"
        /\ pc \notin {"q_write_header", "q_rows"}
        /\ qheader = None

\* C8 witness: load_header has failed on a store that has the tables and no
\* metadata row.
C8_Witness ==
    /\ QueryContext
    /\ metadata = <<>>
    /\ schema.metadata = 1
    /\ pc = "idle"
    /\ result = "err"
    /\ failedAt = "load_header"

\* The positions of step in the trace of the current run.
At(step) == {i \in 1..Len(trace) : trace[i] = step}

\* The parts of the compression schedule that C10 and its original share:
\* compression is enabled once, before every insert, and maintenance is the
\* step right before every commit, after the inserts of the batch.
EnableAndBatchMaintenance ==
    /\ Count(trace, "enable") = 1
    /\ \A e \in At("enable"), i \in At("insert") : e < i
    /\ \A c \in At("commit") : c > 1 /\ trace[c - 1] = "maint"
    /\ Count(trace, "commit") = batch

RECURSIVE FilterText(_)
FilterText(filters) ==
    IF filters = <<>> THEN <<>>
    ELSE Head(filters) \o FilterText(Tail(filters))

\* The emitted record carries chrom, ref, qual and filter of the source
\* record and no identifier but its first.
Matches(rec, source) ==
    /\ rec.reference_sequence_name = source.chrom
    /\ rec.reference_bases = source.ref
    /\ rec.quality_score = source.qual
    /\ FilterText(rec.filters) = source.filter
    /\ rec.ids = <<>> \/ rec.ids = <<Head(source.ids)>>

\* A record all of whose fields parse under the header of its file.
SyntacticallyValid(source) ==
    /\ variant_start(source).ok
    /\ quality_score(source).ok
    /\ parse_info(source.info, Header).status = "ok"

\* Steps of query that fail only on an engine or file fault.
QueryFaults == {"prepare", "open_writer", "write_header", "write_record",
                "row"}

\* C2: round trip.  After a successful import of N syntactically valid
\* records into an empty store, a query with no grouping and no filter (that
\* meets no engine or file fault) succeeds and has emitted N records, the
\* k-th matching the k-th source record.
C2_RoundTrip ==
    (/\ QueryContext
     /\ pc = "idle"
     /\ sql = <<Select>>
     /\ runs = 1
     /\ importOutcome = "ok"
     /\ failedAt \notin QueryFaults
     /\ \A k \in 1..Len(imported) : SyntacticallyValid(imported[k]))
    => /\ result = "ok"
       /\ Len(out) = Len(imported) + 1
       /\ \A k \in 1..Len(imported) :
             /\ out[k + 1].kind = "record"
             /\ Matches(out[k + 1].record, imported[k])

\* C3: absent optional fields stay absent.  In the output of a query with
\* no grouping and no filter, the record emitted for a source record with
\* no identifier has an empty id list, and the record emitted for a source
\* record with no quality score has no quality score.
C3_AbsentStaysAbsent ==
    (QueryContext /\ sql = <<Select>>) =>
        \A k \in 1..(Len(out) - 1) :
            /\ out[k + 1].kind = "record"
            /\ imported[k].ids = <<>> => out[k + 1].record.ids = <<>>
            /\ imported[k].qual = None =>
                   out[k + 1].record.quality_score = None

\* C3 witness: the record of a source record without identifier and without
\* quality score has been emitted as the second of three.
C3_Witness ==
    /\ QueryContext
    /\ sql = <<Select>>
    /\ Len(out) = 4
    /\ imported[2].ids = <<>>
    /\ imported[2].qual = None
    /\ imported[1].ids # <<>>

\* C7: export abort on reconstruction failure.  When the position or the
\* INFO of result row k cannot be reconstructed, the query has returned an
\* error, the output holds the records of the rows before k and no other,
\* and row k is still the next row of the result.
C7_ExportAbort ==
    (QueryContext /\ failedAt \in {"position", "info", "panic"}) =>
        /\ pc = "idle"
        /\ result = "err"
        /\ rows # <<>>
        /\ BuildRecord(Head(rows), qheader[1]).status = failedAt
        /\ Len(out) = 1 + Count(trace, "write_record")
        /\ sql = <<Select>> =>
              /\ Len(out) - 1 + Len(rows) = Len(variants)
              /\ \A k \in 1..(Len(out) - 1) :
                    out[k + 1].record =
                        BuildRecord(variants[k], qheader[1]).record

\* C11: export output order.  The output of a query starts with the header
\* and continues with the records of the result rows taken so far, one per
\* row and in the order of the result; a successful query has emitted the
\* record of every result row.
C11_OutputOrder ==
    QueryContext =>
        /\ out # <<>> =>
              /\ out[1] = [kind |-> "header", header |-> qheader[1]]
              /\ Len(out) - 1 + Len(rows) = Len(resultRows)
        /\ \A k \in 1..(Len(out) - 1) :
              out[k + 1] =
                  [kind |-> "record",
                   record |-> BuildRecord(resultRows[k], qheader[1]).record]
        /\ rows = SubSeq(resultRows, Len(resultRows) - Len(rows) + 1,
                         Len(resultRows))
        /\ result = "ok" => Len(out) = Len(resultRows) + 1

\* C11 witness: a query has succeeded on a result of two different rows.
C11_Witness ==
    /\ QueryContext
    /\ pc = "idle"
    /\ result = "ok"
    /\ Len(resultRows) = 2
    /\ resultRows[1] # resultRows[2]
    /\ Len(out) = 3

\* The positions of a running query.
QuerySteps == {"q_prepare", "q_open_writer", "q_load_header",
               "q_write_header", "q_rows"}

\* C12: append-only store.  No step of any operation removes or changes a
\* committed row of variants (the table only grows at its end), and no step
\* of a query, successful or failed, changes variants, metadata or the
\* schema.
C12_AppendOnly ==
    [][/\ Len(variants) <= Len(variants')
       /\ SubSeq(variants', 1, Len(variants)) = variants
       /\ (pc \in QuerySteps \/ pc' \in QuerySteps) =>
              /\ variants' = variants
              /\ metadata' = metadata
              /\ schema' = schema]_vars

\* C12 witness: a query has failed at a row of a store that two import
\* runs, the second one successful, have worked on.
C12_Witness ==
    /\ QueryContext
    /\ pc = "idle"
    /\ result = "err"
    /\ failedAt \in {"position", "info"}
    /\ runs = 2
    /\ importOutcome = "ok"
    /\ Len(variants) >= 2

\* The header declares the INFO key.
Declared(h, key) == \E i \in 1..Len(h.infos) : h.infos[i].id = key

\* The type of the values of a declared INFO key.
DeclaredType(h, key) ==
    LET d == CHOOSE i \in 1..Len(h.infos) : h.infos[i].id = key
    IN  IF h.infos[d].number = "1"
        THEN h.infos[d].type
        ELSE "Array<" \o h.infos[d].type \o ">"

\* C13: INFO fidelity.  Every INFO field of an emitted record has a key
\* that the stored header declares and a value of the declared type; a row
\* with an undeclared key is not emitted.
C13_InfoFidelity ==
    QueryContext =>
        \A k \in 1..(Len(out) - 1) :
            \A i \in 1..Len(resultRows[k].info) :
                LET key == resultRows[k].info[i].key
                    field == out[k + 1].record.info[i]
                IN  /\ Declared(qheader[1], key)
                    /\ field.key = key
                    /\ field.value[1].type = DeclaredType(qheader[1], key)

\* C14: per-batch step order.  In the steps of an import run every
\* transaction is opened after store_header or after the VACUUM of the
\* batch before, inserts follow the opening or another insert, the
\* maintenance of a batch follows its last insert (or the opening when the
\* batch is empty) and is followed by nothing but the commit, and VACUUM
\* follows the commit.  The transaction is open exactly from its opening to
\* its commit: it is open at the maintenance and closed at the VACUUM and
\* at the next opening.
C14_BatchStepOrder ==
    ImportContext =>
        /\ \A i \in 1..Len(trace) :
              /\ trace[i] = "begin" =>
                     i > 1 /\ trace[i - 1] \in {"store_header", "vacuum"}
              /\ trace[i] = "insert" =>
                     trace[i - 1] \in {"begin", "insert"}
              /\ (trace[i] = "maint" /\ trace[i - 1] # "enable") =>
                     /\ trace[i - 1] \in {"begin", "insert"}
                     /\ i < Len(trace) => trace[i + 1] = "commit"
              /\ trace[i] = "commit" => trace[i - 1] = "maint"
              /\ trace[i] = "vacuum" => trace[i - 1] = "commit"
        /\ txOpen <=> pc \in {"next", "maint", "commit"}
        /\ pc = "maint" => (inBatch = BATCH_SIZE \/ done)
        /\ pc = "vacuum" => trace[Len(trace)] = "commit"
        /\ pc = "begin" => trace[Len(trace)] \in {"store_header", "vacuum"}

\* C14 witness: the second transaction of a run, opened after the VACUUM of
\* the first batch, holds a row.
C14_Witness ==
    /\ ImportContext
    /\ pc = "next"
    /\ batch = 2
    /\ Count(trace, "vacuum") = 1
    /\ txRows # <<>>

\* The statistics pass ran once, as the last step, right after the VACUUM
\* that followed the commit of the last batch.
AnalyzeOnceAtEnd ==
    /\ Count(trace, "analyze") = 1
    /\ Len(trace) >= 3
    /\ trace[Len(trace)] = "analyze"
    /\ trace[Len(trace) - 1] = "vacuum"
    /\ trace[Len(trace) - 2] = "commit"
    /\ Count(trace, "commit") = batch
    /\ done

\* C15: import termination and final pass.  Every import run ends; one that
\* meets no failure ends with Ok.  A run that ended with Ok ran ANALYZE
\* exactly once, after the commit and the VACUUM of the last batch, and a
\* run that ended in an error (or is still running) has not run it.
C15_TerminationAndFinalPass ==
    /\ [](ImportContext =>
            /\ result = "ok" => AnalyzeOnceAtEnd
            /\ result # "ok" => Count(trace, "analyze") = 0)
    /\ [](pc \in ImportSteps => <>(pc = "idle"))
    /\ [][(pc \in ImportSteps /\ pc' = "idle" /\ failedAt' = "none")
          => result' = "ok"]_vars

\* C15 witness: an import of two batches has ended with Ok.
C15_Witness ==
    /\ ImportContext
    /\ pc = "idle"
    /\ result = "ok"
    /\ batch = 2
    /\ Len(read) >= 1
    /\ trace[Len(trace)] = "analyze"

\* Position in the trace of the j-th occurrence of a step.
Nth(step, j) ==
    CHOOSE i \in 1..Len(trace) :
        trace[i] = step /\ Count(SubSeq(trace, 1, i), step) = j

\* Number of inserts made by the j-th transaction of the run.
InsertsIn(j) == Count(SubSeq(trace, Nth("begin", j), Nth("commit", j)), "insert")

\* C16: batch sizing.  While a transaction is open it holds the next
\* records of the stream, in stream order, and never more than BATCH_SIZE
\* of them.  After a successful import of N records, floor(N / BATCH_SIZE) + 1
\* transactions were committed, each but the last inserted exactly
\* BATCH_SIZE records, the last inserted the remaining N mod BATCH_SIZE
\* (zero when N is a multiple of BATCH_SIZE, N = 0 included), and the rows
\* added are the stream's records in order.
C16_BatchSizing ==
    ImportContext =>
        /\ (txOpen /\ pc \in {"next", "maint", "commit"}) =>
              /\ inBatch <= BATCH_SIZE
              /\ Len(txRows) = inBatch
              /\ Len(read) = (batch - 1) * BATCH_SIZE + inBatch
              /\ txRows = [i \in 1..inBatch |->
                             execute_record(read[(batch - 1) * BATCH_SIZE + i]).row]
        /\ result = "ok" =>
              LET N == Len(read)
              IN  /\ batch = (N \div BATCH_SIZE) + 1
                  /\ Count(trace, "begin") = batch
                  /\ Count(trace, "commit") = batch
                  /\ Count(trace, "insert") = N
                  /\ \A j \in 1..batch :
                        /\ InsertsIn(j) <= BATCH_SIZE
                        /\ j < batch => InsertsIn(j) = BATCH_SIZE
                  /\ InsertsIn(batch) = N % BATCH_SIZE
                  /\ RunRows = RowsOf(read, N)

\* A successful import whose record count is a positive multiple of
\* BATCH_SIZE: its last transaction is committed empty.
C16_Witness ==
    /\ ImportContext /\ pc = "idle" /\ result = "ok"
    /\ Len(read) = BATCH_SIZE /\ batch = 2
    /\ InsertsIn(1) = BATCH_SIZE /\ InsertsIn(2) = 0

\* Indices of the rows of a result whose pos is NULL.
AbsentPos(rs) == {i \in 1..Len(rs) : rs[i].pos = None}

\* The first of them.
FirstAbsent(rs) ==
    CHOOSE i \in AbsentPos(rs) : \A j \in AbsentPos(rs) : i <= j

\* Number of variant records written to the output file.
RecordsOut == Cardinality({i \in 1..Len(out) : out[i].kind = "record"})

\* What holds in every state about rows stored with a NULL pos.
AbsentPosFailsExport ==
    /\ Len(imported) = Len(variants)
    /\ \A k \in 1..Len(variants) :
          /\ variants[k].pos = None <=>
                variant_start(imported[k]) = [ok |-> TRUE, val |-> None]
          /\ variants[k].pos = None =>
                /\ unwrap_or_default(variants[k].pos) = 0
                /\ ~PositionTryFrom(unwrap_or_default(variants[k].pos)).ok
                /\ BuildRecord(variants[k], Header).status = "position"
    /\ (QueryContext /\ AbsentPos(resultRows) # {}) =>
          LET f == FirstAbsent(resultRows)
          IN  /\ result # "ok"
              /\ RecordsOut < f
              /\ Len(rows) >= Len(resultRows) - f + 1

\* C17: absent position at export.  A committed row has a NULL pos exactly
\* when its source record had no resolvable position; such a row is rebuilt
\* with position 0, which Position rejects.  A query whose result contains
\* such a row never returns Ok and never emits that row or a later one, and
\* the step of the row loop that takes such a row ends the query with an
\* error, on the position (or on a fault of the row cursor), writing nothing.
C17_AbsentPositionAtExport ==
    /\ []AbsentPosFailsExport
    /\ [][(pc = "q_rows" /\ rows # <<>> /\ Head(rows).pos = None) =>
             /\ pc' = "idle"
             /\ result' = "err"
             /\ failedAt' \in {"position", "row"}
             /\ out' = out]_vars

\* An unfiltered export of a successfully imported store that emitted a
\* record and then failed on the position of a row stored with NULL pos.
C17_Witness ==
    /\ QueryContext /\ pc = "idle" /\ sql = <<Select>>
    /\ importOutcome = "ok"
    /\ result = "err" /\ failedAt = "position"
    /\ rows # <<>> /\ Head(rows).pos = None
    /\ RecordsOut >= 1
    /\ resultRows = variants

\* The pieces of a query text that equal a keyword.
PiecesEqual(text, word) == {i \in 1..Len(text) : text[i] = word}

\* C18: query construction.  The text of the export query starts with the
\* select over the eight variant columns; " GROUP BY " and the grouping
\* fragment follow if and only if a grouping fragment was given; " HAVING "
\* and the filter fragment follow, last, if and only if a filter fragment
\* was given, with or without a grouping fragment; the fragments are copied
\* unchanged, and with neither given the text is the select alone.
C18_QueryConstruction ==
    QueryContext =>
        /\ Select = "SELECT chrom, pos, id, ref, alt, qual, filter, info FROM variants"
        /\ sql[1] = Select
        /\ Len(sql) = 1 + (IF q_group_by # None THEN 2 ELSE 0)
                        + (IF q_having # None THEN 2 ELSE 0)
        /\ (PiecesEqual(sql, " GROUP BY ") # {}) <=> (q_group_by # None)
        /\ (PiecesEqual(sql, " HAVING ") # {}) <=> (q_having # None)
        /\ q_group_by # None =>
              /\ PiecesEqual(sql, " GROUP BY ") = {2}
              /\ sql[3] = q_group_by[1]
        /\ q_having # None =>
              /\ PiecesEqual(sql, " HAVING ") = {Len(sql) - 1}
              /\ sql[Len(sql)] = q_having[1]
        /\ (q_group_by = None /\ q_having = None) => sql = <<Select>>

\* A query given a filter fragment and no grouping fragment, prepared over
\* a store that holds rows.
C18_Witness ==
    /\ QueryContext /\ pc = "q_open_writer"
    /\ q_group_by = None /\ q_having = Some("COUNT(*) > 1")
    /\ sql = <<Select, " HAVING ", "COUNT(*) > 1">>
    /\ Len(variants) >= 2

====
